---- MODULE Spec2Model ----
(***************************************************************************)
(* Radar/AIS target fusion (src/src/fusion.py, src/src/models.py).         *)
(*                                                                         *)
(* Geometry.  Contacts are placed on the meridian through the radar        *)
(* origin: bearings are 0 or 180 degrees, every longitude is the origin's. *)
(* On a meridian the haversine distance is the absolute difference of the  *)
(* latitudes; latitudes and radar ranges are counted in metres of arc, so  *)
(* that a pair of contacts can be exactly association_distance apart.      *)
(*                                                                         *)
(* Time.  `now` is what datetime.now() returns, in seconds.                *)
(*                                                                         *)
(* Dictionaries.  radar_targets and ais_targets are iterated by the        *)
(* association searches, so they are sequences in insertion order; the     *)
(* track maps are functions from fused_id to track, and the list that      *)
(* get_fused_targets returns is kept as the set of its tracks.             *)
(* FusionEngine.radar_targets / ais_targets receive the same assignments   *)
(* as the TargetFusion dictionaries of the same name and are not kept      *)
(* twice.                                                                  *)
(*                                                                         *)
(* Contacts carry identity and position; speed, course and heading are     *)
(* copied through by the code and take no part in association,             *)
(* classification, confidence or eviction.                                 *)
(*                                                                         *)
(* FusedTarget.update has no caller in the repository: the engine builds a *)
(* new FusedTarget on every upsert.  update() is therefore applied to      *)
(* `held`, the object an add call has just built and handed to its caller. *)
(***************************************************************************)
EXTENDS Integers, Sequences, FiniteSets, TLC

VARIABLES
    radar_targets,   \* TargetFusion.radar_targets, insertion order
    ais_targets,     \* TargetFusion.ais_targets, insertion order
    fused_targets,   \* TargetFusion.fused_targets: fused_id -> FusedTarget
    matched_ais,     \* TargetFusion.matched_ais
    radar_origin,    \* TargetFusion.radar_origin, <<lon, lat>>
    callbacks,       \* FusionEngine.callbacks, registration order
    engine_fused,    \* FusionEngine.fused_targets: fused_id -> FusedTarget
    now,             \* wall clock
    last,            \* the most recent call: operation, argument, outcome
    trace,           \* the calls made since construction, while few
    held,            \* a FusedTarget object on which update() is called
    pc,              \* per thread: the engine call it is inside, or None
    config,          \* Config.config: the entries the engine could read
    engine,          \* TargetFusion: the parameters fixed at construction
    tracker,         \* a stand-alone estimator object, or None before it is built
    kalman_filter,   \* RadarSystem.kalman_filter, a MultiTargetKalmanFilter
    alert_manager    \* RadarSystem.alert_manager, an AlertManager

\* the state outside the fusion engine's own
side == <<pc, config, engine, tracker, kalman_filter, alert_manager>>

vars == <<radar_targets, ais_targets, fused_targets, matched_ais,
          radar_origin, callbacks, engine_fused, now, last, trace, held, side>>

----------------------------------------------------------------------------
(* Bounds *)

MaxClock == 90
MaxCalls == 3
MaxTrace == 2
MaxCallbacks == 2
MaxUpdates == 2
MaxHistoryUpdates == 102
MaxProcess == 2
MaxChecks == 2
MaxRegistryCalls == 4

RadarIds == {"1", "2"}
Mmsis == {"200100001", "200100002"}
Bearings == {0, 180}
RadarRanges == {50}
AisLats == {0, 50}
\* AIS latitudes with two of them at the same distance from a radar contact
TieLats == {0, 50, 100}
CallbackIds == {"cb1", "cb2"}

\* main.py starts one thread per simulator and one for the API
Threads == {"radar", "ais", "reader"}

\* radar.origin of a configuration, in metres of arc: the default
\* (30.017 N, 122.107 E) or the equator at Greenwich
OriginLats == {0, 3337740}
OriginLons == {0, 13577690}

\* fusion.association_distance_m of a configuration; None when the key is missing
GateDistances == {[none |-> TRUE], [value |-> -100], [value |-> 0], [value |-> 100]}

\* measurement_noise handed to KalmanFilter()
MeasurementNoises == {-1, 0, 1}

\* measured positions
Xs == {0, 10}
Ys == {0, 20}

\* identities and measurements handed to the MultiTargetKalmanFilter
TargetIds == {"1", "2"}
Measurements == {[x |-> 0, y |-> 0], [x |-> 10, y |-> 20]}

\* the entries of a target dictionary handed to AlertManager.check_target;
\* speeds in tenths of a knot, distances in tenths of a nautical mile, None
\* when the key is missing
AlertSpeeds == {[none |-> TRUE], [value |-> 0], [value |-> 5], [value |-> 51],
                [value |-> 300], [value |-> 301]}
AlertDistances == {[value |-> 2], [value |-> 3], [value |-> 100], [value |-> 101]}
AlertSources == {[value |-> "radar"], [value |-> "ais"]}
AlertCourses == {[value |-> 80], [value |-> 280]}

\* names asked of TrackerFactory.create
AlgorithmNames == {"KF", "EKF", "UKF", "PF", "IMM"}

----------------------------------------------------------------------------
(* Values *)

None == [none |-> TRUE]

association_distance == 100
max_age == 60
ConfFused == 9
ConfAis == 8
ConfRadar == 7
HistoryCap == 100

TickSeconds == max_age \div 2

\* dict.get(key, default)
Get(entry, default) == IF entry = None THEN default ELSE entry.value

Configuration(lon, lat, gate) ==
    [origin |-> [lon |-> lon, lat |-> lat], association_distance_m |-> gate]

Configs == {Configuration(lo, la, g) : lo \in OriginLons, la \in OriginLats,
                                      g \in GateDistances}

\* Config.DEFAULT_CONFIG
DefaultConfig == Configuration(13577690, 3337740, [value |-> 100])

\* TargetFusion.__init__: what the constructor hands back
NewTargetFusion(cfg) ==
    [association_distance |-> Get(cfg.association_distance_m, association_distance),
     max_age |-> max_age,
     radar_origin |-> <<0, 0>>]

RadarTarget(id, d, b) == [target_id |-> id, distance_nm |-> d, bearing_deg |-> b]

AISTarget(m, la, lo) == [mmsi |-> m, lat |-> la, lon |-> lo]

RadarContacts == {RadarTarget(id, d, b) : id \in RadarIds, d \in RadarRanges, b \in Bearings}

AisContacts == {AISTarget(m, la, 0) : m \in Mmsis, la \in AisLats}

TieContacts == {AISTarget(m, la, 0) : m \in Mmsis, la \in TieLats}

\* arguments of FusedTarget.update: each contact given or left out
UpdateRadarArgs == {None, RadarTarget("1", 50, 0)}

UpdateAisArgs == {None, AISTarget("200100001", 50, 0)}

FusedTarget(fid, r, a, st, la, lo, conf, ts) ==
    [fused_id |-> fid, radar_target |-> r, ais_target |-> a, source_type |-> st,
     lat |-> la, lon |-> lo, confidence |-> conf, timestamp |-> ts, history |-> <<>>]

----------------------------------------------------------------------------
(* Pure helpers *)

Abs(n) == IF n < 0 THEN -n ELSE n

Cos(b) == IF b = 0 THEN 1 ELSE -1

Sin(b) == 0

RadarToGeo(distance, bearing, ref_lat, ref_lon) ==
    <<ref_lat + distance * Cos(bearing), ref_lon + distance * Sin(bearing)>>

HaversineDistance(lat1, lon1, lat2, lon2) == Abs(lat2 - lat1)

\* dict[key] = value on an insertion-ordered dict
Keys(seq, field) == {seq[i][field] : i \in 1..Len(seq)}

\* a re-added key moved to the end of the iteration order
DictSet_reinsert(seq, field, v) ==
    Append(SelectSeq(seq, LAMBDA e : e[field] # v[field]), v)

DictSet(seq, field, v) ==
    IF v[field] \in Keys(seq, field)
    THEN [i \in 1..Len(seq) |-> IF seq[i][field] = v[field] THEN v ELSE seq[i]]
    ELSE Append(seq, v)

\* an entry already in the dictionary kept as it is
Put_ifAbsent(f, k, v) ==
    IF k \in DOMAIN f THEN f
    ELSE [x \in (DOMAIN f) \cup {k} |-> IF x = k THEN v ELSE f[x]]

Put(f, k, v) == [x \in (DOMAIN f) \cup {k} |-> IF x = k THEN v ELSE f[x]]

\* a candidate at exactly the gate distance accepted
RECURSIVE ScanAis_inclusive(_, _, _, _, _)
ScanAis_inclusive(pool, matched, lat, lon, i) ==
    IF i > Len(pool) THEN None
    ELSE IF pool[i].mmsi \in matched THEN ScanAis_inclusive(pool, matched, lat, lon, i + 1)
    ELSE IF HaversineDistance(lat, lon, pool[i].lat, pool[i].lon) <= association_distance
         THEN pool[i]
         ELSE ScanAis_inclusive(pool, matched, lat, lon, i + 1)

RECURSIVE ScanAis(_, _, _, _, _)
ScanAis(pool, matched, lat, lon, i) ==
    IF i > Len(pool) THEN None
    ELSE IF pool[i].mmsi \in matched THEN ScanAis(pool, matched, lat, lon, i + 1)
    ELSE IF HaversineDistance(lat, lon, pool[i].lat, pool[i].lon) < association_distance
         THEN pool[i]
         ELSE ScanAis(pool, matched, lat, lon, i + 1)

FindMatchingAis_inclusive(pool, matched, lat, lon) ==
    ScanAis_inclusive(pool, matched, lat, lon, 1)

FindMatchingAis(pool, matched, lat, lon) == ScanAis(pool, matched, lat, lon, 1)

RadarGeo(radar, origin) ==
    RadarToGeo(radar.distance_nm, radar.bearing_deg, origin[2], origin[1])

RECURSIVE ScanRadar(_, _, _, _, _)
ScanRadar(pool, origin, lat, lon, i) ==
    IF i > Len(pool) THEN None
    ELSE IF HaversineDistance(lat, lon, RadarGeo(pool[i], origin)[1],
                              RadarGeo(pool[i], origin)[2]) < association_distance
         THEN pool[i]
         ELSE ScanRadar(pool, origin, lat, lon, i + 1)

FindMatchingRadar(pool, origin, lat, lon) == ScanRadar(pool, origin, lat, lon, 1)

\* callbacks invoked last-registered first
OnFused_reversed(cbs, track) ==
    [i \in 1..Len(cbs) |-> [callback |-> cbs[Len(cbs) + 1 - i], target |-> track]]

\* FusionEngine._on_fused: every registered callback, in order, gets the track
OnFused(cbs, track) == [i \in 1..Len(cbs) |-> [callback |-> cbs[i], target |-> track]]

Record(op, arg, upserted, returned, notified) ==
    [op |-> op, arg |-> arg, upserted |-> upserted, returned |-> returned,
     notified |-> notified]

Logged(tr, op, arg) ==
    [n |-> tr.n + 1,
     calls |-> IF tr.n < MaxTrace
               THEN Append(tr.calls, [op |-> op, arg |-> arg])
               ELSE <<>>]

----------------------------------------------------------------------------
(* State after FusionEngine(config) *)

Init ==
    /\ radar_targets = <<>>
    /\ ais_targets = <<>>
    /\ fused_targets = <<>>
    /\ matched_ais = {}
    /\ radar_origin = <<0, 0>>
    /\ callbacks = <<>>
    /\ engine_fused = <<>>
    /\ now = 0
    /\ last = Record("init", None, None, {}, <<>>)
    /\ trace = [n |-> 0, calls |-> <<>>]
    /\ held = None
    /\ pc = [t \in Threads |-> None]
    /\ config = DefaultConfig
    /\ engine = NewTargetFusion(config)
    /\ tracker = None
    /\ kalman_filter = [filters |-> <<>>, allocated |-> 0, calls |-> 0]
    /\ alert_manager = [alerts |-> <<>>, checks |-> 0]

----------------------------------------------------------------------------
(* Operations *)

\* a fused track filed under the radar id instead of the MMSI
FuseRadarTarget_keyedByRadar(radar, pool, matched, origin, clock) ==
    LET geo == RadarGeo(radar, origin)
        m == FindMatchingAis(pool, matched, geo[1], geo[2])
    IN IF m # None
       THEN FusedTarget("F" \o radar.target_id, radar, m, "fused", geo[1], geo[2],
                        ConfFused, clock)
       ELSE FusedTarget("R" \o radar.target_id, radar, None, "radar", geo[1], geo[2],
                        ConfRadar, clock)

\* TargetFusion._fuse_radar_target: the track it builds
FuseRadarTarget(radar, pool, matched, origin, clock) ==
    LET geo == RadarGeo(radar, origin)
        m == FindMatchingAis(pool, matched, geo[1], geo[2])
    IN IF m # None
       THEN FusedTarget("F" \o m.mmsi, radar, m, "fused", geo[1], geo[2], ConfFused, clock)
       ELSE FusedTarget("R" \o radar.target_id, radar, None, "radar", geo[1], geo[2],
                        ConfRadar, clock)

AddRadarTarget(target) ==
    LET pool == DictSet(radar_targets, "target_id", target)
        fused == FuseRadarTarget(target, ais_targets, matched_ais, radar_origin, now)
    IN /\ trace.n < MaxCalls
       /\ radar_targets' = pool
       /\ matched_ais' = IF fused.ais_target # None
                         THEN matched_ais \cup {fused.ais_target.mmsi}
                         ELSE matched_ais
       /\ fused_targets' = Put(fused_targets, fused.fused_id, fused)
       /\ engine_fused' = Put(engine_fused, fused.fused_id, fused)
       /\ last' = Record("add_radar_target", target, fused.fused_id, {},
                         OnFused(callbacks, fused))
       /\ trace' = Logged(trace, "add_radar_target", target)
       /\ UNCHANGED <<ais_targets, radar_origin, callbacks, now, held>>
       /\ UNCHANGED side

\* the AIS-only track built without its confidence argument (dataclass default 1.0)
FuseAisTarget_defaultConfidence(ais, pool, origin, clock) ==
    LET r == FindMatchingRadar(pool, origin, ais.lat, ais.lon)
    IN IF r # None
       THEN FusedTarget("F" \o ais.mmsi, r, ais, "fused", RadarGeo(r, origin)[1],
                        RadarGeo(r, origin)[2], ConfFused, clock)
       ELSE FusedTarget("A" \o ais.mmsi, None, ais, "ais", ais.lat, ais.lon,
                        ConfFused + 1, clock)

\* TargetFusion.add_ais_target with _fuse_ais_only: the track it builds
FuseAisTarget(ais, pool, origin, clock) ==
    LET r == FindMatchingRadar(pool, origin, ais.lat, ais.lon)
    IN IF r # None
       THEN FusedTarget("F" \o ais.mmsi, r, ais, "fused", RadarGeo(r, origin)[1],
                        RadarGeo(r, origin)[2], ConfFused, clock)
       ELSE FusedTarget("A" \o ais.mmsi, None, ais, "ais", ais.lat, ais.lon,
                        ConfAis, clock)

AddAisTarget(target) ==
    LET pool == DictSet(ais_targets, "mmsi", target)
        fused == FuseAisTarget(target, radar_targets, radar_origin, now)
    IN /\ trace.n < MaxCalls
       /\ ais_targets' = pool
       /\ matched_ais' = IF fused.radar_target # None
                         THEN matched_ais \cup {target.mmsi}
                         ELSE matched_ais
       /\ fused_targets' = Put(fused_targets, fused.fused_id, fused)
       /\ engine_fused' = Put(engine_fused, fused.fused_id, fused)
       /\ last' = Record("add_ais_target", target, fused.fused_id, {},
                         OnFused(callbacks, fused))
       /\ trace' = Logged(trace, "add_ais_target", target)
       /\ UNCHANGED <<radar_targets, radar_origin, callbacks, now, held>>
       /\ UNCHANGED side

\* eviction at the boundary age as well
Expired_inclusive(tracks, clock) ==
    {fid \in DOMAIN tracks : clock - tracks[fid].timestamp >= max_age}

Expired(tracks, clock) ==
    {fid \in DOMAIN tracks : clock - tracks[fid].timestamp > max_age}

GetFusedTargets ==
    LET live == (DOMAIN fused_targets) \ Expired(fused_targets, now)
    IN /\ fused_targets' = [fid \in live |-> fused_targets[fid]]
       /\ last' = Record("get_fused_targets", None, None,
                         {fused_targets[fid] : fid \in live}, <<>>)
       /\ UNCHANGED <<radar_targets, ais_targets, matched_ais, radar_origin,
                      callbacks, engine_fused, now, trace, held>>
       /\ UNCHANGED side

Tick ==
    /\ now + TickSeconds <= MaxClock
    /\ now' = now + TickSeconds
    /\ UNCHANGED <<radar_targets, ais_targets, fused_targets, matched_ais,
                   radar_origin, callbacks, engine_fused, last, trace, held>>
    /\ UNCHANGED side

\* FusionEngine.register_callback
RegisterCallback(cb) ==
    /\ Len(callbacks) < MaxCallbacks
    /\ callbacks' = Append(callbacks, cb)
    /\ last' = Record("register_callback", None, None, {}, <<>>)
    /\ UNCHANGED <<radar_targets, ais_targets, fused_targets, matched_ais,
                   radar_origin, engine_fused, now, trace, held>>
    /\ UNCHANGED side

\* the first HistoryCap entries kept instead of the last
Trim_oldest(history) ==
    IF Len(history) > HistoryCap
    THEN SubSeq(history, 1, HistoryCap)
    ELSE history

\* FusedTarget.update: the object after the call
Trim(history) ==
    IF Len(history) > HistoryCap
    THEN SubSeq(history, Len(history) - HistoryCap + 1, Len(history))
    ELSE history

\* 'fused' as soon as either reference is present
Classify_either(has_radar, has_ais) ==
    IF has_radar \/ has_ais THEN [source_type |-> "fused", confidence |-> ConfFused]
    ELSE IF has_ais THEN [source_type |-> "ais", confidence |-> ConfAis]
    ELSE [source_type |-> "radar", confidence |-> ConfRadar]

Classify(has_radar, has_ais) ==
    IF has_radar /\ has_ais THEN [source_type |-> "fused", confidence |-> ConfFused]
    ELSE IF has_ais THEN [source_type |-> "ais", confidence |-> ConfAis]
    ELSE [source_type |-> "radar", confidence |-> ConfRadar]

\* the references assigned from the arguments unconditionally
UpdateTarget_overwrite(self, radar, ais, clock) ==
    LET la == IF ais # None THEN ais.lat ELSE self.lat
        lo == IF ais # None THEN ais.lon ELSE self.lon
        c == Classify(radar # None, ais # None)
    IN [fused_id |-> self.fused_id, radar_target |-> radar, ais_target |-> ais,
        source_type |-> c.source_type, lat |-> la, lon |-> lo,
        confidence |-> c.confidence, timestamp |-> clock,
        history |-> Trim(Append(self.history,
                                [lat |-> la, lon |-> lo, timestamp |-> clock]))]

UpdateTarget(self, radar, ais, clock) ==
    LET r == IF radar # None THEN radar ELSE self.radar_target
        a == IF ais # None THEN ais ELSE self.ais_target
        la == IF ais # None THEN ais.lat ELSE self.lat
        lo == IF ais # None THEN ais.lon ELSE self.lon
        c == Classify(r # None, a # None)
    IN [fused_id |-> self.fused_id, radar_target |-> r, ais_target |-> a,
        source_type |-> c.source_type, lat |-> la, lon |-> lo,
        confidence |-> c.confidence, timestamp |-> clock,
        history |-> Trim(Append(self.history,
                                [lat |-> la, lon |-> lo, timestamp |-> clock]))]

\* the caller of an add keeps the FusedTarget that the call built
Hold(fid) ==
    /\ held = None
    /\ last.op \in {"add_radar_target", "add_ais_target"}
    /\ fid = last.upserted
    /\ fid \in DOMAIN fused_targets
    /\ fused_targets[fid].timestamp = now
    /\ held' = fused_targets[fid]
    /\ last' = Record("hold", None, fid, {}, <<>>)
    /\ UNCHANGED <<radar_targets, ais_targets, fused_targets, matched_ais,
                   radar_origin, callbacks, engine_fused, now, trace>>
    /\ UNCHANGED side

Update(radar, ais) ==
    /\ held # None
    /\ Len(held.history) < MaxUpdates
    /\ held' = UpdateTarget(held, radar, ais, now)
    /\ last' = Record("update", [radar_target |-> radar, ais_target |-> ais],
                      held.fused_id, {}, <<>>)
    /\ UNCHANGED <<radar_targets, ais_targets, fused_targets, matched_ais,
                   radar_origin, callbacks, engine_fused, now, trace>>
    /\ UNCHANGED side

Next ==
    \/ \E t \in RadarContacts : AddRadarTarget(t)
    \/ \E t \in AisContacts : AddAisTarget(t)
    \/ GetFusedTargets
    \/ Tick

Spec == Init /\ [][Next]_vars

\* the engine with callbacks being registered
NextNotify ==
    \/ \E cb \in CallbackIds : RegisterCallback(cb)
    \/ \E t \in RadarContacts : AddRadarTarget(t)
    \/ \E t \in AisContacts : AddAisTarget(t)

SpecNotify == Init /\ [][NextNotify]_vars

\* the adds alone, over AIS contacts that can tie
NextAssociation ==
    \/ \E t \in RadarContacts : AddRadarTarget(t)
    \/ \E t \in TieContacts : AddAisTarget(t)

SpecAssociation == Init /\ [][NextAssociation]_vars

\* the engine, then update() on a track it built
NextUpdate ==
    \/ held = None /\ Next
    \/ \E fid \in DOMAIN fused_targets : Hold(fid)
    \/ \E r \in UpdateRadarArgs, a \in UpdateAisArgs : Update(r, a)

SpecUpdate == Init /\ [][NextUpdate]_vars

\* the updates `held` has gone through since the engine built it, when every
\* update moved it one metre north
Moved == held.lat - engine_fused[held.fused_id].lat

\* update() with an AIS report one metre north of the track's position
UpdateMoved ==
    /\ held # None
    /\ Moved < MaxHistoryUpdates
    /\ LET report == AISTarget("200100001", held.lat + 1, held.lon)
       IN /\ held' = UpdateTarget(held, None, report, now)
          /\ last' = Record("update", [radar_target |-> None, ais_target |-> report],
                            held.fused_id, {}, <<>>)
    /\ UNCHANGED <<radar_targets, ais_targets, fused_targets, matched_ais,
                   radar_origin, callbacks, engine_fused, now, trace>>
    /\ UNCHANGED side

\* one track built by the engine, then a long run of update() on it
NextHistory ==
    \/ held = None /\ \E t \in RadarContacts : AddRadarTarget(t)
    \/ held = None /\ \E t \in AisContacts : AddAisTarget(t)
    \/ \E fid \in DOMAIN fused_targets : Hold(fid)
    \/ UpdateMoved

SpecHistory == Init /\ [][NextHistory]_vars

----------------------------------------------------------------------------
(* Estimators (src/src/kalman_filter.py, src/src/advanced_tracker.py).       *)
(*                                                                           *)
(* numpy's floating point is replaced by exact fractions.  F, H, Q, R and    *)
(* the initial P act on the two axes alike and never couple them, so P is    *)
(* kept as the block [a b; b c] it has on each axis: a = P[0][0] = P[1][1],  *)
(* b = P[0][2] = P[1][3], c = P[2][2] = P[3][3].  dt is its default, 1.      *)
(* KFTracker names its fields x and init; they are kept here under           *)
(* KalmanFilter's names, state and initialized.                              *)

RECURSIVE Gcd(_, _)
Gcd(a, b) == IF b = 0 THEN a ELSE Gcd(b, a % b)

Frac(n, d) ==
    LET g == Gcd(Abs(n), Abs(d))
        sgn == IF d < 0 THEN -1 ELSE 1
    IN [n |-> (sgn * n) \div g, d |-> (sgn * d) \div g]

Whole(i) == [n |-> i, d |-> 1]

\* common factors are taken out before multiplying, to stay within 32 bits
Plus(p, q) ==
    LET g == Gcd(p.d, q.d)
    IN Frac(p.n * (q.d \div g) + q.n * (p.d \div g), p.d * (q.d \div g))

Negative(p) == [n |-> 0 - p.n, d |-> p.d]

Minus(p, q) == Plus(p, Negative(q))

Times(p, q) ==
    LET g == Gcd(Abs(p.n), q.d)
        h == Gcd(Abs(q.n), p.d)
    IN Frac((p.n \div g) * (q.n \div h), (p.d \div h) * (q.d \div g))

Inverse(p) == IF p.n < 0 THEN [n |-> 0 - p.d, d |-> 0 - p.n] ELSE [n |-> p.d, d |-> p.n]

Over(p, q) == Times(p, Inverse(q))

Zero == Whole(0)

One == Whole(1)

\* process_noise and q default to 0.1
DefaultProcessNoise == Frac(1, 10)

Estimator(class, q, r) ==
    [class |-> class, process_noise |-> q, measurement_noise |-> r,
     state |-> [x |-> Zero, y |-> Zero, vx |-> Zero, vy |-> Zero],
     P |-> [a |-> Whole(100), b |-> Zero, c |-> Whole(100)],
     initialized |-> FALSE, calls |-> 0]

\* KalmanFilter.__init__
KalmanFilter(q, r) == Estimator("KalmanFilter", q, r)

\* KalmanFilter.initialize
Initialize(kf, x, y) ==
    [kf EXCEPT !.state = [x |-> x, y |-> y, vx |-> Zero, vy |-> Zero],
               !.P = [a |-> One, b |-> Zero, c |-> One],
               !.initialized = TRUE]

\* KalmanFilter.predict: state = F state, P = F P F' + Q
Predict(kf) ==
    [kf EXCEPT !.state = [x |-> Plus(kf.state.x, kf.state.vx),
                          y |-> Plus(kf.state.y, kf.state.vy),
                          vx |-> kf.state.vx, vy |-> kf.state.vy],
               !.P = [a |-> Plus(Plus(kf.P.a, Plus(kf.P.b, kf.P.b)),
                                 Plus(kf.P.c, kf.process_noise)),
                      b |-> Plus(kf.P.b, kf.P.c),
                      c |-> Plus(kf.P.c, kf.process_noise)]]

\* S = H P H' + R is singular: numpy.linalg.inv raises
Singular(kf) == Plus(kf.P.a, kf.measurement_noise) = Zero

\* the correction: K = P H' inv(S), state += K (z - H state), P = (I - K H) P
Correct(kf, x, y) ==
    LET S == Plus(kf.P.a, kf.measurement_noise)
        Kp == Over(kf.P.a, S)
        Kv == Over(kf.P.b, S)
        rx == Minus(x, kf.state.x)
        ry == Minus(y, kf.state.y)
    IN [kf EXCEPT !.state = [x |-> Plus(kf.state.x, Times(Kp, rx)),
                             y |-> Plus(kf.state.y, Times(Kp, ry)),
                             vx |-> Plus(kf.state.vx, Times(Kv, rx)),
                             vy |-> Plus(kf.state.vy, Times(Kv, ry))],
                  !.P = [a |-> Minus(kf.P.a, Times(Kp, kf.P.a)),
                         b |-> Minus(kf.P.b, Times(Kp, kf.P.b)),
                         c |-> Minus(kf.P.c, Times(Kv, kf.P.b))]]

Position(kf) == [x |-> kf.state.x, y |-> kf.state.y]

Raised(error) == [raised |-> error]

\* a call's outcome: the object afterwards and what the caller gets
Outcome(self, result) == [self |-> self, result |-> result]

\* the first measurement run through the correction like any other
KalmanUpdate_correctFirst(kf, x, y) ==
    IF Singular(kf) THEN Outcome(kf, Raised("LinAlgError"))
    ELSE Outcome([Correct(kf, x, y) EXCEPT !.initialized = TRUE],
                 Position(Correct(kf, x, y)))

\* KalmanFilter.update
KalmanUpdate(kf, x, y) ==
    IF ~ kf.initialized THEN Outcome(Initialize(kf, x, y), [x |-> x, y |-> y])
    ELSE IF Singular(kf) THEN Outcome(kf, Raised("LinAlgError"))
    ELSE Outcome(Correct(kf, x, y), Position(Correct(kf, x, y)))

\* KalmanFilter.predict_update
PredictUpdate(kf, x, y) == KalmanUpdate(Predict(kf), x, y)

\* KFTracker.process (EKFTracker and UKFTracker inherit it)
KFProcess(kf, x, y) ==
    IF ~ kf.initialized THEN Outcome(Initialize(kf, x, y), [x |-> x, y |-> y])
    ELSE IF Singular(Predict(kf)) THEN Outcome(Predict(kf), Raised("LinAlgError"))
    ELSE Outcome(Correct(Predict(kf), x, y), Position(Correct(Predict(kf), x, y)))

\* PFTracker.__init__
PFTracker ==
    [class |-> "PFTracker", process_noise |-> One, measurement_noise |-> Whole(5),
     state |-> [x |-> Zero, y |-> Zero, vx |-> Zero, vy |-> Zero],
     initialized |-> FALSE, calls |-> 0]

\* the weighted particle mean after a step; the particles are drawn at random
PfEstimates ==
    {[x |-> Whole(px), y |-> Whole(py), vx |-> Zero, vy |-> Zero] : px \in Xs, py \in Ys}

\* PFTracker.process, the estimate being est when the particles decide it
PFProcess(pf, x, y, est) ==
    IF ~ pf.initialized
    THEN Outcome([pf EXCEPT !.state = [x |-> x, y |-> y, vx |-> Zero, vy |-> Zero],
                            !.initialized = TRUE],
                 [x |-> x, y |-> y])
    ELSE Outcome([pf EXCEPT !.state = est], [x |-> est.x, y |-> est.y])

\* TrackerFactory.ALGORITHMS
ALGORITHMS == [KF |-> "KFTracker", EKF |-> "EKFTracker", UKF |-> "UKFTracker",
               PF |-> "PFTracker"]

\* TrackerFactory.list_algorithms
ListAlgorithms == <<"KF", "EKF", "UKF", "PF">>

NewTracker(class) ==
    IF class = "PFTracker" THEN PFTracker
    ELSE Estimator(class, DefaultProcessNoise, One)

\* an unknown name answered with the default algorithm
CreateTracker_fallback(algorithm) ==
    IF algorithm \notin DOMAIN ALGORITHMS
    THEN NewTracker(ALGORITHMS["KF"])
    ELSE NewTracker(ALGORITHMS[algorithm])

\* TrackerFactory.create
CreateTracker(algorithm) ==
    IF algorithm \notin DOMAIN ALGORITHMS
    THEN Raised("ValueError")
    ELSE NewTracker(ALGORITHMS[algorithm])

KFClasses == {"KFTracker", "EKFTracker", "UKFTracker"}

Called(outcome) == [outcome.self EXCEPT !.calls = @ + 1]

engineVars == <<radar_targets, ais_targets, fused_targets, matched_ais, radar_origin,
                callbacks, engine_fused, now, trace, held, pc, config, engine,
                kalman_filter, alert_manager>>

\* KalmanFilter(measurement_noise = r)
NewKalmanFilter(r) ==
    /\ tracker = None
    /\ tracker' = KalmanFilter(DefaultProcessNoise, Whole(r))
    /\ last' = Record("KalmanFilter", r, None, {}, <<>>)
    /\ UNCHANGED engineVars

\* TrackerFactory.create(name)
Create(name) ==
    /\ tracker = None
    /\ tracker' = IF CreateTracker(name) = Raised("ValueError") THEN tracker
                  ELSE CreateTracker(name)
    /\ last' = Record("create", name, None, CreateTracker(name), <<>>)
    /\ UNCHANGED engineVars

\* kf.update(x, y)
TrackerUpdate(x, y) ==
    /\ tracker # None
    /\ tracker.class = "KalmanFilter"
    /\ tracker.calls < MaxProcess
    /\ tracker' = Called(KalmanUpdate(tracker, Whole(x), Whole(y)))
    /\ last' = Record("update", [x |-> Whole(x), y |-> Whole(y)], None,
                      KalmanUpdate(tracker, Whole(x), Whole(y)).result, <<>>)
    /\ UNCHANGED engineVars

\* kf.predict()
TrackerPredict ==
    /\ tracker # None
    /\ tracker.class = "KalmanFilter"
    /\ tracker.calls < MaxProcess
    /\ tracker' = Called(Outcome(Predict(tracker), None))
    /\ last' = Record("predict", None, None, Position(Predict(tracker)), <<>>)
    /\ UNCHANGED engineVars

\* kf.predict_update(x, y)
TrackerPredictUpdate(x, y) ==
    /\ tracker # None
    /\ tracker.class = "KalmanFilter"
    /\ tracker.calls < MaxProcess
    /\ tracker' = Called(PredictUpdate(tracker, Whole(x), Whole(y)))
    /\ last' = Record("predict_update", [x |-> Whole(x), y |-> Whole(y)], None,
                      PredictUpdate(tracker, Whole(x), Whole(y)).result, <<>>)
    /\ UNCHANGED engineVars

\* tracker.process(x, y) on a KFTracker, EKFTracker or UKFTracker
ProcessKF(x, y) ==
    /\ tracker # None
    /\ tracker.class \in KFClasses
    /\ tracker.calls < MaxProcess
    /\ tracker' = Called(KFProcess(tracker, Whole(x), Whole(y)))
    /\ last' = Record("process", [x |-> Whole(x), y |-> Whole(y)], None,
                      KFProcess(tracker, Whole(x), Whole(y)).result, <<>>)
    /\ UNCHANGED engineVars

\* tracker.process(x, y) on a PFTracker
ProcessPF(x, y) ==
    /\ tracker # None
    /\ tracker.class = "PFTracker"
    /\ tracker.calls < MaxProcess
    /\ \E est \in PfEstimates :
           /\ tracker' = Called(PFProcess(tracker, Whole(x), Whole(y), est))
           /\ last' = Record("process", [x |-> Whole(x), y |-> Whole(y)], None,
                             PFProcess(tracker, Whole(x), Whole(y), est).result, <<>>)
    /\ UNCHANGED engineVars

NextTracker ==
    \/ \E r \in MeasurementNoises : NewKalmanFilter(r)
    \/ \E name \in AlgorithmNames : Create(name)
    \/ \E x \in Xs, y \in Ys : TrackerUpdate(x, y)
    \/ TrackerPredict
    \/ \E x \in Xs, y \in Ys : TrackerPredictUpdate(x, y)
    \/ \E x \in Xs, y \in Ys : ProcessKF(x, y)
    \/ \E x \in Xs, y \in Ys : ProcessPF(x, y)

SpecTracker == Init /\ [][NextTracker]_vars

\* the engine built from a configuration, as RadarSystem.initialize builds it
InitConfig ==
    /\ config \in Configs
    /\ engine = NewTargetFusion(config)
    /\ radar_origin = engine.radar_origin
    /\ radar_targets = <<>>
    /\ ais_targets = <<>>
    /\ fused_targets = <<>>
    /\ matched_ais = {}
    /\ callbacks = <<>>
    /\ engine_fused = <<>>
    /\ now = 0
    /\ last = Record("init", None, None, {}, <<>>)
    /\ trace = [n |-> 0, calls |-> <<>>]
    /\ held = None
    /\ pc = [t \in Threads |-> None]
    /\ tracker = None
    /\ kalman_filter = [filters |-> <<>>, allocated |-> 0, calls |-> 0]
    /\ alert_manager = [alerts |-> <<>>, checks |-> 0]

NextConfig ==
    \/ \E t \in RadarContacts : AddRadarTarget(t)
    \/ \E r \in MeasurementNoises : NewKalmanFilter(r)

SpecConfig == InitConfig /\ [][NextConfig]_vars

----------------------------------------------------------------------------
(* MultiTargetKalmanFilter.  filters maps an identity to its KalmanFilter    *)
(* object: the object's number (objects are numbered as they are built) and  *)
(* its contents.                                                             *)

Drop(f, k) == [x \in (DOMAIN f) \ {k} |-> f[x]]

\* KalmanFilter.get_state, without 'speed', which is computed from vx and vy
get_state(kf) ==
    [x |-> kf.state.x, y |-> kf.state.y, vx |-> kf.state.vx, vy |-> kf.state.vy,
     P |-> kf.P]

add_target(self, id, x, y) ==
    [self EXCEPT !.filters = Put(self.filters, id,
                                 [object |-> self.allocated + 1,
                                  kf |-> Initialize(KalmanFilter(DefaultProcessNoise, One),
                                                    x, y)]),
                 !.allocated = @ + 1]

\* an identity already in the registry given a new estimator
update_target_rebuild(self, id, x, y) ==
    Outcome(add_target(self, id, x, y), get_state(add_target(self, id, x, y).filters[id].kf))

update_target(self, id, x, y) ==
    IF id \notin DOMAIN self.filters
    THEN Outcome(add_target(self, id, x, y),
                 get_state(add_target(self, id, x, y).filters[id].kf))
    ELSE LET kf == PredictUpdate(self.filters[id].kf, x, y).self
         IN Outcome([self EXCEPT !.filters[id].kf = kf], get_state(kf))

\* an unknown identity given an estimator at the origin
predict_target_create(self, id) ==
    IF id \notin DOMAIN self.filters
    THEN Outcome(add_target(self, id, Zero, Zero), Position(Predict(add_target(self, id, Zero, Zero).filters[id].kf)))
    ELSE Outcome([self EXCEPT !.filters[id].kf = Predict(self.filters[id].kf)],
                 Position(Predict(self.filters[id].kf)))

predict_target(self, id) ==
    IF id \notin DOMAIN self.filters
    THEN Outcome(self, None)
    ELSE Outcome([self EXCEPT !.filters[id].kf = Predict(self.filters[id].kf)],
                 Position(Predict(self.filters[id].kf)))

\* removal that empties the registry
remove_target_clear(self, id) ==
    IF id \in DOMAIN self.filters
    THEN [self EXCEPT !.filters = <<>>]
    ELSE self

remove_target(self, id) ==
    IF id \in DOMAIN self.filters
    THEN [self EXCEPT !.filters = Drop(self.filters, id)]
    ELSE self

get_all_states(self) == [id \in DOMAIN self.filters |-> get_state(self.filters[id].kf)]

Counted(self) == [self EXCEPT !.calls = @ + 1]

\* the estimator of id has room for one more step
Fresh(self, id) == id \in DOMAIN self.filters => self.filters[id].kf.calls < MaxProcess

\* one more step taken by the estimator that id had before the call
Stepped(before, after, id) ==
    IF id \in DOMAIN before.filters /\ id \in DOMAIN after.filters
    THEN [after EXCEPT !.filters[id].kf.calls = @ + 1]
    ELSE after

registryFrame == <<radar_targets, ais_targets, fused_targets, matched_ais, radar_origin,
                   callbacks, engine_fused, now, trace, held, pc, config, engine,
                   tracker, alert_manager>>

AddTargetCall(id, m) ==
    /\ kalman_filter.calls < MaxRegistryCalls
    /\ kalman_filter' = Counted(add_target(kalman_filter, id, Whole(m.x), Whole(m.y)))
    /\ last' = Record("add_target", [id |-> id, x |-> Whole(m.x), y |-> Whole(m.y)],
                      None, None, <<>>)
    /\ UNCHANGED registryFrame

UpdateTargetCall(id, m) ==
    /\ kalman_filter.calls < MaxRegistryCalls
    /\ Fresh(kalman_filter, id)
    /\ kalman_filter' =
           Counted(Stepped(kalman_filter,
                           update_target(kalman_filter, id, Whole(m.x), Whole(m.y)).self,
                           id))
    /\ last' = Record("update_target", [id |-> id, x |-> Whole(m.x), y |-> Whole(m.y)],
                      None,
                      update_target(kalman_filter, id, Whole(m.x), Whole(m.y)).result,
                      <<>>)
    /\ UNCHANGED registryFrame

PredictTargetCall(id) ==
    /\ kalman_filter.calls < MaxRegistryCalls
    /\ Fresh(kalman_filter, id)
    /\ kalman_filter' =
           Counted(Stepped(kalman_filter, predict_target(kalman_filter, id).self, id))
    /\ last' = Record("predict_target", [id |-> id], None,
                      predict_target(kalman_filter, id).result, <<>>)
    /\ UNCHANGED registryFrame

RemoveTargetCall(id) ==
    /\ kalman_filter.calls < MaxRegistryCalls
    /\ kalman_filter' = Counted(remove_target(kalman_filter, id))
    /\ last' = Record("remove_target", [id |-> id], None, None, <<>>)
    /\ UNCHANGED registryFrame

GetAllStatesCall ==
    /\ kalman_filter.calls < MaxRegistryCalls
    /\ kalman_filter' = Counted(kalman_filter)
    /\ last' = Record("get_all_states", None, None, get_all_states(kalman_filter), <<>>)
    /\ UNCHANGED registryFrame

NextRegistry ==
    \/ \E id \in TargetIds, m \in Measurements : AddTargetCall(id, m)
    \/ \E id \in TargetIds, m \in Measurements : UpdateTargetCall(id, m)
    \/ \E id \in TargetIds : PredictTargetCall(id)
    \/ \E id \in TargetIds : RemoveTargetCall(id)
    \/ GetAllStatesCall

SpecRegistry == Init /\ [][NextRegistry]_vars

----------------------------------------------------------------------------
(* AlertManager (src/src/alert.py) with the rules its constructor registers. *)
(* The entries are numbers or strings, so no condition raises and            *)
(* AlertRule.check returns what the condition returns.                       *)

max_alerts == 1000

\* AlertManager._init_default_rules, in registration order
DefaultRules ==
    << [name |-> "speed_high", level |-> "warning"],
       [name |-> "speed_zero", level |-> "info"],
       [name |-> "distance_close", level |-> "critical"],
       [name |-> "distance_far", level |-> "info"],
       [name |-> "no_ais_small", level |-> "warning"],
       [name |-> "heading_port", level |-> "critical"] >>

AlertTargets ==
    {[id |-> [value |-> "t1"], speed_knots |-> sp, distance_nm |-> d, source_type |-> st,
      course_deg |-> c] :
        sp \in AlertSpeeds, d \in AlertDistances, st \in AlertSources, c \in AlertCourses}

\* the condition of the rule called name, on the target dictionary t
Condition(name, t) ==
    CASE name = "speed_high" -> Get(t.speed_knots, 0) > 300
      [] name = "speed_zero" -> Get(t.speed_knots, 0) < 5 /\ Get(t.speed_knots, 0) >= 0
      [] name = "distance_close" -> Get(t.distance_nm, 9990) < 3
      [] name = "distance_far" -> Get(t.distance_nm, 0) > 100
      [] name = "no_ais_small" ->
             t.source_type = [value |-> "radar"] /\ Get(t.speed_knots, 0) > 50
      [] name = "heading_port" -> 270 < Get(t.course_deg, 0) /\ Get(t.course_deg, 0) < 90

Alert(rule, t, clock) ==
    [id |-> rule.name \o "_" \o Get(t.id, "unknown"), target_id |-> t.id,
     rule |-> rule.name,
     level |-> rule.level, target |-> t, timestamp |-> clock]

\* AlertManager._add_alert
AddAlert(alerts, alert) ==
    IF Len(alerts) + 1 > max_alerts
    THEN SubSeq(Append(alerts, alert), Len(alerts) + 2 - max_alerts, Len(alerts) + 1)
    ELSE Append(alerts, alert)

RECURSIVE AddAlerts(_, _, _)
AddAlerts(alerts, triggered, i) ==
    IF i > Len(triggered) THEN alerts
    ELSE AddAlerts(AddAlert(alerts, triggered[i]), triggered, i + 1)

Triggering(rules, t) == SelectSeq(rules, LAMBDA rule : Condition(rule.name, t))

\* the evaluation stopped at the first rule that triggers
CheckTarget_firstOnly(rules, t, clock) ==
    [i \in 1..(IF Len(Triggering(rules, t)) > 0 THEN 1 ELSE 0) |->
        Alert(Triggering(rules, t)[i], t, clock)]

\* AlertManager.check_target: the list it returns
CheckTarget(rules, t, clock) ==
    [i \in 1..Len(Triggering(rules, t)) |-> Alert(Triggering(rules, t)[i], t, clock)]

CheckTargetCall(t) ==
    /\ alert_manager.checks < MaxChecks
    /\ alert_manager' =
           [alerts |-> AddAlerts(alert_manager.alerts, CheckTarget(DefaultRules, t, now), 1),
            checks |-> alert_manager.checks + 1]
    /\ last' = Record("check_target", t, None, CheckTarget(DefaultRules, t, now), <<>>)
    /\ UNCHANGED <<radar_targets, ais_targets, fused_targets, matched_ais, radar_origin,
                   callbacks, engine_fused, now, trace, held, pc, config, engine,
                   tracker, kalman_filter>>

NextAlert == \E t \in AlertTargets : CheckTargetCall(t)

SpecAlert == Init /\ [][NextAlert]_vars

----------------------------------------------------------------------------
(* The engine shared by the producer threads and the API thread.  A thread   *)
(* can be preempted between any two statements; each call is cut once, after *)
(* its first statement on the shared dictionaries.                           *)

Enter(t, call) == [pc EXCEPT ![t] = call]

Leave(t) == [pc EXCEPT ![t] = None]

\* the radar simulator thread enters add_radar_target: radar_targets[id] = target
RadarStore(target) ==
    /\ pc["radar"] = None
    /\ trace.n < MaxCalls
    /\ radar_targets' = DictSet(radar_targets, "target_id", target)
    /\ pc' = Enter("radar", [op |-> "add_radar_target", arg |-> target])
    /\ trace' = Logged(trace, "add_radar_target", target)
    /\ UNCHANGED <<ais_targets, fused_targets, matched_ais, radar_origin, callbacks,
                   engine_fused, now, last, held>>
    /\ UNCHANGED <<config, engine, tracker, kalman_filter, alert_manager>>

\* ... and runs _fuse_radar_target to the end of the call
RadarFuse ==
    /\ pc["radar"] # None
    /\ LET target == pc["radar"].arg
           fused == FuseRadarTarget(target, ais_targets, matched_ais, radar_origin, now)
       IN /\ matched_ais' = IF fused.ais_target # None
                            THEN matched_ais \cup {fused.ais_target.mmsi}
                            ELSE matched_ais
          /\ fused_targets' = Put(fused_targets, fused.fused_id, fused)
          /\ engine_fused' = Put(engine_fused, fused.fused_id, fused)
          /\ last' = Record("add_radar_target", target, fused.fused_id, {},
                            OnFused(callbacks, fused))
    /\ pc' = Leave("radar")
    /\ UNCHANGED <<radar_targets, ais_targets, radar_origin, callbacks, now, trace, held>>
    /\ UNCHANGED <<config, engine, tracker, kalman_filter, alert_manager>>

\* the AIS simulator thread enters add_ais_target: ais_targets[mmsi] = target
AisStore(target) ==
    /\ pc["ais"] = None
    /\ trace.n < MaxCalls
    /\ ais_targets' = DictSet(ais_targets, "mmsi", target)
    /\ pc' = Enter("ais", [op |-> "add_ais_target", arg |-> target])
    /\ trace' = Logged(trace, "add_ais_target", target)
    /\ UNCHANGED <<radar_targets, fused_targets, matched_ais, radar_origin, callbacks,
                   engine_fused, now, last, held>>
    /\ UNCHANGED <<config, engine, tracker, kalman_filter, alert_manager>>

\* ... and searches the radar pool and stores the track
AisFuse ==
    /\ pc["ais"] # None
    /\ LET target == pc["ais"].arg
           fused == FuseAisTarget(target, radar_targets, radar_origin, now)
       IN /\ matched_ais' = IF fused.radar_target # None
                            THEN matched_ais \cup {target.mmsi}
                            ELSE matched_ais
          /\ fused_targets' = Put(fused_targets, fused.fused_id, fused)
          /\ engine_fused' = Put(engine_fused, fused.fused_id, fused)
          /\ last' = Record("add_ais_target", target, fused.fused_id, {},
                            OnFused(callbacks, fused))
    /\ pc' = Leave("ais")
    /\ UNCHANGED <<radar_targets, ais_targets, radar_origin, callbacks, now, trace, held>>
    /\ UNCHANGED <<config, engine, tracker, kalman_filter, alert_manager>>

\* the API thread enters get_fused_targets (directly or through get_stats) and
\* collects the expired ids
ReaderScan ==
    /\ pc["reader"] = None
    /\ pc' = Enter("reader", [op |-> "get_fused_targets",
                              expired |-> Expired(fused_targets, now)])
    /\ UNCHANGED <<radar_targets, ais_targets, fused_targets, matched_ais, radar_origin,
                   callbacks, engine_fused, now, last, trace, held>>
    /\ UNCHANGED <<config, engine, tracker, kalman_filter, alert_manager>>

\* ... deletes them and returns the remaining tracks
ReaderEvict ==
    /\ pc["reader"] # None
    /\ LET live == (DOMAIN fused_targets) \ pc["reader"].expired
       IN /\ fused_targets' = [fid \in live |-> fused_targets[fid]]
          /\ last' = Record("get_fused_targets", None, None,
                            {fused_targets[fid] : fid \in live}, <<>>)
    /\ pc' = Leave("reader")
    /\ UNCHANGED <<radar_targets, ais_targets, matched_ais, radar_origin, callbacks,
                   engine_fused, now, trace, held>>
    /\ UNCHANGED <<config, engine, tracker, kalman_filter, alert_manager>>

NextThreads ==
    \/ \E t \in RadarContacts : RadarStore(t)
    \/ RadarFuse
    \/ \E t \in AisContacts : AisStore(t)
    \/ AisFuse
    \/ ReaderScan
    \/ ReaderEvict
    \/ Tick

SpecThreads == Init /\ [][NextThreads]_vars

----------------------------------------------------------------------------
(* RadarSystem.  initialize registers _on_target_update with the engine and  *)
(* builds the estimator registry and the alert manager; every track the      *)
(* engine upserts then runs through the handler before the add returns.      *)
(* The contacts of the input sets are stationary: speed 0, course 0.         *)

\* FusedTarget.__dict__ under the keys that the handler and the alert rules
\* look up; the dataclass has the field fused_id and no field id or distance_nm
TargetDict(track) ==
    [id |-> None, fused_id |-> [value |-> track.fused_id],
     lat |-> [value |-> track.lat], lon |-> [value |-> track.lon],
     speed_knots |-> [value |-> 0], course_deg |-> [value |-> 0],
     distance_nm |-> None, source_type |-> [value |-> track.source_type]]

\* target.get('id', '')
TargetId(target) == Get(target.id, "")

\* the estimator registry after RadarSystem._on_target_update(track)
OnTargetUpdate_kalman(registry, track) ==
    LET target == TargetDict(track)
    IN Counted(Stepped(registry,
                       update_target(registry, TargetId(target),
                                     Whole(Get(target.lat, 0)),
                                     Whole(Get(target.lon, 0))).self,
                       TargetId(target)))

\* the alert manager after RadarSystem._on_target_update(track)
OnTargetUpdate_alerts(manager, track, clock) ==
    [alerts |-> AddAlerts(manager.alerts,
                          CheckTarget(DefaultRules, TargetDict(track), clock), 1),
     checks |-> manager.checks + 1]

\* RadarSystem.initialize
InitSystem ==
    /\ radar_targets = <<>>
    /\ ais_targets = <<>>
    /\ fused_targets = <<>>
    /\ matched_ais = {}
    /\ radar_origin = <<0, 0>>
    /\ callbacks = <<"_on_target_update">>
    /\ engine_fused = <<>>
    /\ now = 0
    /\ last = Record("init", None, None, {}, <<>>)
    /\ trace = [n |-> 0, calls |-> <<>>]
    /\ held = None
    /\ pc = [t \in Threads |-> None]
    /\ config = DefaultConfig
    /\ engine = NewTargetFusion(config)
    /\ tracker = None
    /\ kalman_filter = [filters |-> <<>>, allocated |-> 0, calls |-> 0]
    /\ alert_manager = [alerts |-> <<>>, checks |-> 0]

\* fusion_engine.add_radar_target(target) with the handler registered
SystemAddRadarTarget(target) ==
    LET fused == FuseRadarTarget(target, ais_targets, matched_ais, radar_origin, now)
    IN /\ trace.n < MaxCalls
       /\ Fresh(kalman_filter, TargetId(TargetDict(fused)))
       /\ radar_targets' = DictSet(radar_targets, "target_id", target)
       /\ matched_ais' = IF fused.ais_target # None
                         THEN matched_ais \cup {fused.ais_target.mmsi}
                         ELSE matched_ais
       /\ fused_targets' = Put(fused_targets, fused.fused_id, fused)
       /\ engine_fused' = Put(engine_fused, fused.fused_id, fused)
       /\ kalman_filter' = OnTargetUpdate_kalman(kalman_filter, fused)
       /\ alert_manager' = OnTargetUpdate_alerts(alert_manager, fused, now)
       /\ last' = Record("add_radar_target", target, fused.fused_id, {},
                         OnFused(callbacks, fused))
       /\ trace' = Logged(trace, "add_radar_target", target)
       /\ UNCHANGED <<ais_targets, radar_origin, callbacks, now, held>>
       /\ UNCHANGED <<pc, config, engine, tracker>>

\* fusion_engine.add_ais_target(target) with the handler registered
SystemAddAisTarget(target) ==
    LET fused == FuseAisTarget(target, radar_targets, radar_origin, now)
    IN /\ trace.n < MaxCalls
       /\ Fresh(kalman_filter, TargetId(TargetDict(fused)))
       /\ ais_targets' = DictSet(ais_targets, "mmsi", target)
       /\ matched_ais' = IF fused.radar_target # None
                         THEN matched_ais \cup {target.mmsi}
                         ELSE matched_ais
       /\ fused_targets' = Put(fused_targets, fused.fused_id, fused)
       /\ engine_fused' = Put(engine_fused, fused.fused_id, fused)
       /\ kalman_filter' = OnTargetUpdate_kalman(kalman_filter, fused)
       /\ alert_manager' = OnTargetUpdate_alerts(alert_manager, fused, now)
       /\ last' = Record("add_ais_target", target, fused.fused_id, {},
                         OnFused(callbacks, fused))
       /\ trace' = Logged(trace, "add_ais_target", target)
       /\ UNCHANGED <<radar_targets, radar_origin, callbacks, now, held>>
       /\ UNCHANGED <<pc, config, engine, tracker>>

NextSystem ==
    \/ \E t \in RadarContacts : SystemAddRadarTarget(t)
    \/ \E t \in AisContacts : SystemAddAisTarget(t)

SpecSystem == InitSystem /\ [][NextSystem]_vars

----------------------------------------------------------------------------
(* Claims *)

Adds == {"add_radar_target", "add_ais_target"}

Live == DOMAIN fused_targets

InGate(r, a) ==
    HaversineDistance(RadarGeo(r, radar_origin)[1], RadarGeo(r, radar_origin)[2],
                      a.lat, a.lon) < association_distance

\* C1: no MMSI is referenced by more than one live track classified 'fused'.
C1_ExclusiveFusedMmsi ==
    \A f, g \in Live :
        ( /\ fused_targets[f].source_type = "fused"
          /\ fused_targets[g].source_type = "fused"
          /\ fused_targets[f].ais_target # None
          /\ fused_targets[g].ais_target # None
          /\ fused_targets[f].ais_target.mmsi = fused_targets[g].ais_target.mmsi )
        => f = g

\* two radar contacts in the pool lie within the gate of one fused track's AIS contact
C1_Witness ==
    \E f \in Live :
        /\ fused_targets[f].source_type = "fused"
        /\ \E i, j \in 1..Len(radar_targets) :
               /\ i # j
               /\ InGate(radar_targets[i], fused_targets[f].ais_target)
               /\ InGate(radar_targets[j], fused_targets[f].ais_target)

\* C2: for each MMSI at most one live track carries an AIS reference with that
\* MMSI; A<mmsi> and F<mmsi> never coexist.
C2_OneTrackPerMmsi ==
    /\ \A f, g \in Live :
           ( /\ fused_targets[f].ais_target # None
             /\ fused_targets[g].ais_target # None
             /\ fused_targets[f].ais_target.mmsi = fused_targets[g].ais_target.mmsi )
           => f = g
    /\ \A m \in Mmsis : ~ (("A" \o m) \in Live /\ ("F" \o m) \in Live)

\* C3: from an empty engine, a radar contact r and an AIS contact a within the gate
\* of r, added in either order, end with F<a.mmsi> classified 'fused' and without
\* R<r.target_id>.
C3_OrderInvariance ==
    \A r \in RadarContacts, a \in AisContacts :
        ( /\ InGate(r, a)
          /\ last.op \in Adds
          /\ trace.n = 2
          /\ \/ trace.calls = << [op |-> "add_radar_target", arg |-> r],
                                 [op |-> "add_ais_target", arg |-> a] >>
             \/ trace.calls = << [op |-> "add_ais_target", arg |-> a],
                                 [op |-> "add_radar_target", arg |-> r] >> )
        => /\ ("F" \o a.mmsi) \in Live
           /\ fused_targets["F" \o a.mmsi].source_type = "fused"
           /\ ("R" \o r.target_id) \notin Live

Classes == [fid \in Live |-> fused_targets[fid].source_type]

\* C4: adding the same contact twice in succession leaves the same live track
\* identities, classifications and matched-AIS set as adding it once.
C4_IdempotentAdd ==
    [][ ( /\ last.op \in Adds
          /\ trace'.n = trace.n + 1
          /\ last'.op = last.op
          /\ last'.arg = last.arg )
        => ( /\ Classes' = Classes
             /\ matched_ais' = matched_ais ) ]_vars

\* C5: get_fused_targets removes and omits exactly the tracks whose age is
\* strictly greater than max_age; a track of age <= max_age is returned and kept.
C5_AgeEviction ==
    [][ ( last'.op = "get_fused_targets" /\ now' = now /\ trace' = trace )
        => /\ DOMAIN fused_targets' \subseteq Live
           /\ \A t \in last'.returned : t.fused_id \in DOMAIN fused_targets'
           /\ \A fid \in Live :
                  IF now - fused_targets[fid].timestamp > max_age
                  THEN /\ fid \notin DOMAIN fused_targets'
                       /\ fused_targets[fid] \notin last'.returned
                  ELSE /\ fid \in DOMAIN fused_targets'
                       /\ fused_targets'[fid] = fused_targets[fid]
                       /\ fused_targets[fid] \in last'.returned ]_vars

\* a read has evicted one track and returned another whose age is exactly max_age
C5_Witness ==
    /\ last.op = "get_fused_targets"
    /\ \E fid \in DOMAIN engine_fused : fid \notin Live
    /\ \E fid \in Live :
           /\ now - fused_targets[fid].timestamp = max_age
           /\ fused_targets[fid] \in last.returned

\* every FusedTarget in view: the live tracks and the object update() acts on
Tracks == {fused_targets[fid] : fid \in Live} \cup (IF held = None THEN {} ELSE {held})

\* C6: source_type is 'fused' iff both references are present, 'radar' iff only
\* the radar reference is, 'ais' iff only the AIS reference is; for every stored
\* track and after every FusedTarget.update call.
C6_ClassificationMatchesReferences ==
    \A t \in Tracks :
        /\ t.source_type \in {"fused", "radar", "ais"}
        /\ t.source_type = "fused" <=> (t.radar_target # None /\ t.ais_target # None)
        /\ t.source_type = "radar" <=> (t.radar_target # None /\ t.ais_target = None)
        /\ t.source_type = "ais" <=> (t.radar_target = None /\ t.ais_target # None)

\* update() has turned a track that the engine built single-source into a fused one
C6_Witness ==
    /\ last.op = "update"
    /\ held # None
    /\ held.source_type = "fused"
    /\ held.fused_id \in Live
    /\ fused_targets[held.fused_id].source_type # "fused"

\* C7: confidence is 0.9 for 'fused', 0.8 for 'ais', 0.7 for 'radar' on every
\* track, hence fused > ais-only > radar-only.
C7_ConfidenceByClassification ==
    /\ \A t \in Tracks :
           /\ t.source_type = "fused" => t.confidence = 9
           /\ t.source_type = "ais" => t.confidence = 8
           /\ t.source_type = "radar" => t.confidence = 7
    /\ \A t, u \in Tracks :
           /\ (t.source_type = "fused" /\ u.source_type = "ais")
                  => t.confidence > u.confidence
           /\ (t.source_type = "ais" /\ u.source_type = "radar")
                  => t.confidence > u.confidence

\* the live set holds a fused, an AIS-only and a radar-only track at once
C7_Witness ==
    /\ \E fid \in Live : fused_targets[fid].source_type = "fused"
    /\ \E fid \in Live : fused_targets[fid].source_type = "ais"
    /\ \E fid \in Live : fused_targets[fid].source_type = "radar"

\* the track built by the most recent add call
Upserted == engine_fused[last.upserted]

\* C8: both association searches accept a candidate only at a distance strictly
\* below the association distance; a candidate at exactly that distance is rejected.
C8_GateStrict ==
    /\ ( last.op = "add_radar_target" /\ Upserted.ais_target # None )
          => HaversineDistance(RadarGeo(last.arg, radar_origin)[1],
                               RadarGeo(last.arg, radar_origin)[2],
                               Upserted.ais_target.lat, Upserted.ais_target.lon)
               < association_distance
    /\ ( last.op = "add_ais_target" /\ Upserted.radar_target # None )
          => HaversineDistance(last.arg.lat, last.arg.lon,
                               RadarGeo(Upserted.radar_target, radar_origin)[1],
                               RadarGeo(Upserted.radar_target, radar_origin)[2])
               < association_distance

AtGate(r, a) ==
    HaversineDistance(RadarGeo(r, radar_origin)[1], RadarGeo(r, radar_origin)[2],
                      a.lat, a.lon) = association_distance

\* an add call found its only candidate at exactly the gate distance and
\* associated nothing
C8_Witness ==
    \/ /\ last.op = "add_radar_target"
       /\ Upserted.source_type = "radar"
       /\ Len(ais_targets) = 1
       /\ matched_ais = {}
       /\ AtGate(last.arg, ais_targets[1])
    \/ /\ last.op = "add_ais_target"
       /\ Upserted.source_type = "ais"
       /\ Len(radar_targets) = 1
       /\ AtGate(radar_targets[1], last.arg)

\* C9: an add call invokes every registered callback exactly once, in
\* registration order, with the track it upserted, before it returns.
C9_NotifyInOrder ==
    last.op \in Adds =>
        /\ last.upserted \in Live
        /\ Len(last.notified) = Len(callbacks)
        /\ \A i \in 1..Len(callbacks) :
               /\ last.notified[i].callback = callbacks[i]
               /\ last.notified[i].target = fused_targets[last.upserted]

\* an add call has notified two different callbacks
C9_Witness ==
    /\ last.op \in Adds
    /\ Len(callbacks) = 2
    /\ callbacks[1] # callbacks[2]
    /\ Len(last.notified) = 2

\* C10: a live track classified 'fused' stays 'fused' until get_fused_targets
\* removes it for age; no add call reclassifies it; update() never clears a
\* contact reference.
C10_NoDegradation ==
    [][ /\ \A fid \in Live :
              fused_targets[fid].source_type = "fused" =>
                  IF fid \in DOMAIN fused_targets'
                  THEN fused_targets'[fid].source_type = "fused"
                  ELSE /\ last'.op = "get_fused_targets"
                       /\ now - fused_targets[fid].timestamp > max_age
        /\ (held # None /\ held' # None) =>
              /\ held.radar_target # None => held'.radar_target # None
              /\ held.ais_target # None => held'.ais_target # None
              /\ held.source_type = "fused" => held'.source_type = "fused" ]_vars

\* a fused track is still live after a later add call upserted another track,
\* and an object built fused has gone through update() with no AIS argument
C10_Witness ==
    /\ last.op = "update"
    /\ last.arg.ais_target = None
    /\ held.source_type = "fused"
    /\ held.fused_id \in Live
    /\ fused_targets[held.fused_id].source_type = "fused"
    /\ \E fid \in Live :
           /\ fused_targets[fid].source_type = "fused"
           /\ fid # held.fused_id

\* the calls in progress
Running == {t \in Threads : pc[t] # None}

\* C11: with the radar producer, the AIS producer and the reader on separate
\* threads, no two of add_radar_target, add_ais_target and get_fused_targets /
\* get_stats are in progress at the same time.
C11_MutualExclusion == Cardinality(Running) <= 1

\* a constructor that refused: it raised and handed nothing back
Refused(component) == "raised" \in DOMAIN component

\* C12: constructing a fusion engine with a negative association gate distance,
\* or an estimator with a non-positive measurement noise, ends in an error at
\* construction; no usable component is produced.
C12_InvalidConfigurationFailsFast ==
    /\ ( /\ config.association_distance_m # None
         /\ config.association_distance_m.value < 0 ) => Refused(engine)
    /\ ( /\ last.op = "KalmanFilter"
         /\ last.arg <= 0 ) => tracker = None

\* C13: update(x, y) on a KalmanFilter and process(x, y) on a KFTracker or
\* PFTracker that is not initialized return exactly (x, y), set the state to
\* (x, y) with zero velocity and mark the estimator initialized; the
\* initialized flag never returns to false.
C13_FirstObservationIsGroundTruth ==
    [][ tracker # None =>
          /\ tracker' # None
          /\ tracker.initialized => tracker'.initialized
          /\ ( /\ ~ tracker.initialized
               /\ last'.op \in {"update", "process"}
               /\ tracker'.calls = tracker.calls + 1 )
             => /\ last'.returned = last'.arg
                /\ tracker'.state = [x |-> last'.arg.x, y |-> last'.arg.y,
                                     vx |-> Zero, vy |-> Zero]
                /\ tracker'.initialized ]_vars

\* a KalmanFilter has taken its first measurement, away from the origin,
\* through update()
C13_Witness ==
    /\ tracker # None
    /\ tracker.class = "KalmanFilter"
    /\ tracker.calls = 1
    /\ tracker.initialized
    /\ last.op = "update"
    /\ last.returned = [x |-> Whole(10), y |-> Whole(20)]
    /\ tracker.state.x = Whole(10)

Registered == DOMAIN kalman_filter.filters

\* a registry call has just returned
RegistryCall(op) == last'.op = op /\ kalman_filter'.calls = kalman_filter.calls + 1

Untouched(ids) ==
    \A j \in ids : /\ j \in DOMAIN kalman_filter'.filters
                   /\ kalman_filter'.filters[j] = kalman_filter.filters[j]

\* C14: update_target(id, x, y) for an identity not in the registry creates
\* exactly one estimator for it, initialized at (x, y) with zero velocity, and
\* returns a snapshot with x, y equal to the measurement; for an identity in the
\* registry it creates nothing, forwards to the same estimator object and
\* returns that estimator's snapshot after the update.
C14_LazyCreation ==
    [][ RegistryCall("update_target") =>
          LET id == last'.arg.id
              after == kalman_filter'.filters
          IN /\ DOMAIN after = Registered \cup {id}
             /\ Untouched(Registered \ {id})
             /\ last'.returned = get_state(after[id].kf)
             /\ IF id \in Registered
                THEN /\ kalman_filter'.allocated = kalman_filter.allocated
                     /\ after[id].object = kalman_filter.filters[id].object
                ELSE /\ kalman_filter'.allocated = kalman_filter.allocated + 1
                     /\ after[id].object = kalman_filter'.allocated
                     /\ after[id].kf.initialized
                     /\ after[id].kf.state = [x |-> last'.arg.x, y |-> last'.arg.y,
                                              vx |-> Zero, vy |-> Zero]
                     /\ last'.returned.x = last'.arg.x
                     /\ last'.returned.y = last'.arg.y ]_vars

\* update_target has reached the estimator it created earlier, which has moved
\* and learned a velocity, while another identity is registered
C14_Witness ==
    /\ last.op = "update_target"
    /\ last.arg.id \in Registered
    /\ kalman_filter.filters[last.arg.id].kf.calls = 1
    /\ last.returned.vx # Zero
    /\ kalman_filter.allocated = 2
    /\ Cardinality(Registered) = 2

\* C15: predict_target(id) for an identity not in the registry returns None,
\* raises nothing, creates no estimator and leaves the registry unchanged.
C15_AbsentPredict ==
    [][ ( RegistryCall("predict_target") /\ last'.arg.id \notin Registered )
        => /\ last'.returned = None
           /\ kalman_filter'.filters = kalman_filter.filters
           /\ kalman_filter'.allocated = kalman_filter.allocated ]_vars

\* predict_target was asked for an identity that is not registered while
\* another one is
C15_Witness ==
    /\ last.op = "predict_target"
    /\ last.arg.id \notin Registered
    /\ last.returned = None
    /\ Registered # {}

\* C16: remove_target(id) deletes the estimator of id and leaves every other
\* identity's estimator unchanged, is a no-op when id is absent, and no other
\* registry operation ever removes an identity.
C16_ExplicitRemovalOnly ==
    [][ IF RegistryCall("remove_target")
        THEN /\ DOMAIN kalman_filter'.filters = Registered \ {last'.arg.id}
             /\ Untouched(Registered \ {last'.arg.id})
             /\ kalman_filter'.allocated = kalman_filter.allocated
        ELSE Registered \subseteq DOMAIN kalman_filter'.filters ]_vars

\* remove_target has deleted one of two estimators and the other is still there
C16_Witness ==
    /\ last.op = "remove_target"
    /\ last.arg.id \notin Registered
    /\ kalman_filter.allocated = 2
    /\ Cardinality(Registered) = 1

Listed == {ListAlgorithms[i] : i \in 1..Len(ListAlgorithms)}

\* C17: for every name that list_algorithms() returns, 'KF', 'EKF' and 'UKF'
\* among them, create(name) returns an instance of the class registered under
\* that name ('KF' gives a KFTracker); for any other name create raises an error
\* and returns no tracker.
C17_Factory ==
    /\ {"KF", "EKF", "UKF"} \subseteq Listed
    /\ Listed = DOMAIN ALGORITHMS
    /\ last.op = "create" =>
          IF last.arg \in Listed
          THEN /\ tracker # None
               /\ last.returned = tracker
               /\ tracker.class = ALGORITHMS[last.arg]
               /\ last.arg = "KF" => tracker.class = "KFTracker"
          ELSE /\ last.returned = Raised("ValueError")
               /\ tracker = None

\* create was asked for a name that is not registered
C17_Witness ==
    /\ last.op = "create"
    /\ last.arg \notin Listed
    /\ last.returned = Raised("ValueError")

Min(a, b) == IF a < b THEN a ELSE b

\* C18: after n FusedTarget.update calls on one track, len(history) <= 100 and
\* history holds exactly the entries of the most recent min(n, 100) updates in
\* insertion order, the oldest dropped first.
C18_HistoryCap ==
    held # None =>
        /\ Len(held.history) <= 100
        /\ Len(held.history) = Min(Moved, 100)
        /\ \A i \in 1..Len(held.history) :
               held.history[i].lat = held.lat - (Len(held.history) - i)

\* update() has been called more often than the history can hold
C18_Witness ==
    /\ held # None
    /\ Moved = 102
    /\ Len(held.history) = 100
    /\ held.history[1].lat = held.lat - 99

\* C19: once the engine is built from a configuration, every polar-to-geographic
\* conversion is relative to the configured radar.origin; no radar contact is
\* placed relative to (0.0, 0.0) when the configuration names another origin.
C19_OriginFromConfiguration ==
    \A fid \in Live :
        fused_targets[fid].radar_target # None =>
            <<fused_targets[fid].lat, fused_targets[fid].lon>> =
                RadarToGeo(fused_targets[fid].radar_target.distance_nm,
                           fused_targets[fid].radar_target.bearing_deg,
                           config.origin.lat, config.origin.lon)

\* the position of a default rule in the rule list
RuleIndex(name) == CHOOSE i \in 1..Len(DefaultRules) : DefaultRules[i].name = name

\* C20: check_target(t) returns exactly one alert per registered rule whose
\* condition holds for t, in rule order, and appends each to the alert history;
\* a target with speed_knots > 30 yields at least one alert (speed_high), and a
\* target with 0.5 <= speed_knots <= 30, 0.3 <= distance_nm <= 10 and a
\* source_type other than 'radar' yields no alert.
C20_AlertEvaluation ==
    [][ ( last'.op = "check_target" /\ alert_manager'.checks = alert_manager.checks + 1 )
        => LET t == last'.arg
               out == last'.returned
           IN /\ \A i \in 1..Len(DefaultRules) :
                     Condition(DefaultRules[i].name, t) <=>
                         \E k \in 1..Len(out) : out[k].rule = DefaultRules[i].name
              /\ \A k \in 1..Len(out) : out[k].target = t
              /\ \A j, k \in 1..Len(out) :
                     j < k => RuleIndex(out[j].rule) < RuleIndex(out[k].rule)
              /\ alert_manager'.alerts = alert_manager.alerts \o out
              /\ ( t.speed_knots # None /\ t.speed_knots.value > 300 )
                    => \E k \in 1..Len(out) : out[k].rule = "speed_high"
              /\ ( /\ t.speed_knots # None
                   /\ t.speed_knots.value >= 5
                   /\ t.speed_knots.value <= 300
                   /\ t.distance_nm # None
                   /\ t.distance_nm.value >= 3
                   /\ t.distance_nm.value <= 100
                   /\ t.source_type # [value |-> "radar"] )
                    => out = <<>> ]_vars

\* a fast radar target close by has raised three alerts after an earlier check
\* raised none
C20_Witness ==
    /\ last.op = "check_target"
    /\ alert_manager.checks = 2
    /\ Len(last.returned) = 3
    /\ Len(alert_manager.alerts) = 3

\* metres between a radar contact's geographic position and an AIS contact
Separation(r, a) ==
    HaversineDistance(RadarGeo(r, radar_origin)[1], RadarGeo(r, radar_origin)[2],
                      a.lat, a.lon)

\* the AIS contacts in the pool that no earlier association has marked matched
Eligible == {ais_targets[i] : i \in {j \in 1..Len(ais_targets) :
                                         ais_targets[j].mmsi \notin matched_ais}}

\* C22: when several eligible candidates lie within the gate of a new contact,
\* the association search returns the candidate at minimum distance, and it
\* returns no match only when no eligible candidate is below the gate; for the
\* AIS search of add_radar_target and the radar search of add_ais_target.
C22_NearestWithinGate ==
    [][ /\ ( trace'.n = trace.n + 1 /\ last'.op = "add_radar_target" )
           => LET found == engine_fused'[last'.upserted].ais_target
              IN IF found = None
                 THEN \A a \in Eligible :
                          Separation(last'.arg, a) >= association_distance
                 ELSE /\ found \in Eligible
                      /\ \A a \in Eligible :
                             Separation(last'.arg, found) <= Separation(last'.arg, a)
        /\ ( trace'.n = trace.n + 1 /\ last'.op = "add_ais_target" )
           => LET found == engine_fused'[last'.upserted].radar_target
                  pool == {radar_targets[i] : i \in 1..Len(radar_targets)}
              IN IF found = None
                 THEN \A r \in pool :
                          Separation(r, last'.arg) >= association_distance
                 ELSE /\ found \in pool
                      /\ \A r \in pool :
                             Separation(found, last'.arg) <= Separation(r, last'.arg)
      ]_vars

\* the identities of a pool in iteration order
Order(pool, field) == [i \in 1..Len(pool) |-> pool[i][field]]

\* C23: when two eligible candidates lie at exactly the same distance from the new
\* contact, both inside the gate, the one inserted into the pool first is
\* associated; and re-adding a contact under an identity already in the pool
\* leaves the pool's iteration order as it was.
C23_TieBreakByInsertionOrder ==
    [][ /\ ( trace'.n = trace.n + 1 /\ last'.op = "add_radar_target" )
           => /\ \A i, j \in 1..Len(ais_targets) :
                     ( /\ i < j
                       /\ ais_targets[i] \in Eligible
                       /\ ais_targets[j] \in Eligible
                       /\ Separation(last'.arg, ais_targets[i]) < association_distance
                       /\ Separation(last'.arg, ais_targets[i])
                              = Separation(last'.arg, ais_targets[j]) )
                     => /\ engine_fused'[last'.upserted].ais_target # ais_targets[j]
                        /\ Len(ais_targets) = 2
                               => engine_fused'[last'.upserted].ais_target
                                      = ais_targets[i]
              /\ last'.arg.target_id \in Keys(radar_targets, "target_id")
                     => Order(radar_targets', "target_id")
                            = Order(radar_targets, "target_id")
        /\ ( trace'.n = trace.n + 1 /\ last'.op = "add_ais_target" )
           => /\ \A i, j \in 1..Len(radar_targets) :
                     ( /\ i < j
                       /\ Separation(radar_targets[i], last'.arg) < association_distance
                       /\ Separation(radar_targets[i], last'.arg)
                              = Separation(radar_targets[j], last'.arg) )
                     => /\ engine_fused'[last'.upserted].radar_target # radar_targets[j]
                        /\ Len(radar_targets) = 2
                               => engine_fused'[last'.upserted].radar_target
                                      = radar_targets[i]
              /\ last'.arg.mmsi \in Keys(ais_targets, "mmsi")
                     => Order(ais_targets', "mmsi") = Order(ais_targets, "mmsi")
      ]_vars

\* an add call has just associated the first inserted of two candidates that
\* lie at the same distance inside the gate: an AIS contact between two radar
\* contacts, or a radar contact between two unmatched AIS contacts
C23_Witness ==
    \/ /\ last.op = "add_ais_target"
       /\ Len(radar_targets) = 2
       /\ Separation(radar_targets[1], last.arg) < association_distance
       /\ Separation(radar_targets[1], last.arg) = Separation(radar_targets[2], last.arg)
       /\ RadarGeo(radar_targets[1], radar_origin) # RadarGeo(radar_targets[2], radar_origin)
       /\ Upserted.radar_target = radar_targets[1]
    \/ /\ last.op = "add_radar_target"
       /\ Len(ais_targets) = 2
       /\ matched_ais = {ais_targets[1].mmsi}
       /\ Separation(last.arg, ais_targets[1]) < association_distance
       /\ Separation(last.arg, ais_targets[1]) = Separation(last.arg, ais_targets[2])
       /\ ais_targets[1].lat # ais_targets[2].lat
       /\ Upserted.ais_target = ais_targets[1]

\* C24: the matched set holds for one cycle only: whenever a radar contact is added
\* while an AIS contact of the pool lies within its gate, the track the call
\* upserts is F<mmsi> of such a contact, classified 'fused', whether or not that
\* MMSI was matched by an earlier call or its fused track has been evicted.
C24_MatchedSetPerCycle ==
    ( /\ last.op = "add_radar_target"
      /\ \E i \in 1..Len(ais_targets) : InGate(last.arg, ais_targets[i]) )
    => /\ Upserted.source_type = "fused"
       /\ \E i \in 1..Len(ais_targets) :
              /\ InGate(last.arg, ais_targets[i])
              /\ Upserted.fused_id = "F" \o ais_targets[i].mmsi

\* C25: no radar contact is referenced by more than one live track classified
\* 'fused'; an AIS add never associates a radar contact that is already fused
\* with a different MMSI.
C25_ExclusiveFusedRadar ==
    \A f, g \in Live :
        ( /\ fused_targets[f].source_type = "fused"
          /\ fused_targets[g].source_type = "fused"
          /\ fused_targets[f].radar_target # None
          /\ fused_targets[g].radar_target # None
          /\ fused_targets[f].radar_target.target_id
                 = fused_targets[g].radar_target.target_id )
        => f = g

\* C26: an upsert through the fusion engine for an identity already in the live
\* set mutates the existing track, so that the track's history gains the new
\* position at its end and keeps the last 100: after n upserts of one identity
\* the history holds the last min(n, 100) positions in insertion order.
C26_UpsertKeepsHistory ==
    [][ ( trace'.n = trace.n + 1 /\ last'.op \in Adds )
        => LET fid == last'.upserted
               before == IF fid \in Live THEN fused_targets[fid].history ELSE <<>>
               after == fused_targets'[fid]
           IN after.history
                  = Trim(Append(before, [lat |-> after.lat, lon |-> after.lon,
                                         timestamp |-> after.timestamp]))
      ]_vars

\* C27: every fused-track identity delivered to RadarSystem._on_target_update has
\* its own entry in the estimator registry, keyed by that identity, and two
\* tracks with different identities never share one estimator instance.
C27_OneEstimatorPerTrack ==
    /\ \A fid \in DOMAIN engine_fused : fid \in DOMAIN kalman_filter.filters
    /\ \A f, g \in DOMAIN engine_fused :
           ( /\ f # g
             /\ f \in DOMAIN kalman_filter.filters
             /\ g \in DOMAIN kalman_filter.filters )
           => kalman_filter.filters[f].object # kalman_filter.filters[g].object

\* C28: on an initialized estimator KalmanFilter.update(x, y) is one
\* constant-velocity prediction followed by one correction: it leaves the same
\* state and covariance as predict_update(x, y) and as KFTracker.process(x, y)
\* would from the same estimator.
C28_UpdateIsPredictThenCorrect ==
    [][ ( /\ last'.op = "update"
          /\ tracker # None
          /\ tracker.class = "KalmanFilter"
          /\ tracker.initialized
          /\ tracker'.calls = tracker.calls + 1 )
        => /\ tracker'.state = PredictUpdate(tracker, last'.arg.x, last'.arg.y).self.state
           /\ tracker'.P = PredictUpdate(tracker, last'.arg.x, last'.arg.y).self.P
           /\ tracker'.state = KFProcess(tracker, last'.arg.x, last'.arg.y).self.state
           /\ tracker'.P = KFProcess(tracker, last'.arg.x, last'.arg.y).self.P
      ]_vars

\* C29: when get_fused_targets deletes, every track it deletes is older than
\* max_age at the moment of the deletion: a track upserted with a fresh timestamp
\* between the expiry scan and the delete stays live.
C29_EvictionKeepsFreshTracks ==
    [][ ( pc["reader"] # None /\ pc'["reader"] = None )
        => \A fid \in (DOMAIN fused_targets) \ (DOMAIN fused_targets') :
               now - fused_targets[fid].timestamp > max_age
      ]_vars

\* C30: under sequential execution every added contact is tracked: right after
\* add_radar_target(r) the live set holds a track whose radar reference is r,
\* filed under F<mmsi> or R<r.target_id>; right after add_ais_target(a) it holds
\* a track whose AIS reference is a, filed under F<a.mmsi> or A<a.mmsi>; and
\* every live track is filed under its own fused_id, whose prefix F, R or A
\* matches its classification.
C30_EveryContactTracked ==
    /\ last.op = "add_radar_target"
          => \E fid \in Live :
                 /\ fused_targets[fid].radar_target = last.arg
                 /\ \/ fid = "R" \o last.arg.target_id
                    \/ \E m \in Mmsis : fid = "F" \o m
    /\ last.op = "add_ais_target"
          => \E fid \in Live :
                 /\ fused_targets[fid].ais_target = last.arg
                 /\ fid \in {"F" \o last.arg.mmsi, "A" \o last.arg.mmsi}
    /\ \A fid \in Live :
           /\ fused_targets[fid].fused_id = fid
           /\ \/ /\ fused_targets[fid].source_type = "fused"
                 /\ \E m \in Mmsis : fid = "F" \o m
              \/ /\ fused_targets[fid].source_type = "radar"
                 /\ \E id \in RadarIds : fid = "R" \o id
              \/ /\ fused_targets[fid].source_type = "ais"
                 /\ \E m \in Mmsis : fid = "A" \o m

\* an AIS add has just fused its contact with a radar contact, next to an
\* AIS-only track and a radar-only track: all three prefixes are live
C30_Witness ==
    /\ last.op = "add_ais_target"
    /\ last.upserted = "F" \o last.arg.mmsi
    /\ last.upserted \in Live
    /\ fused_targets[last.upserted].ais_target = last.arg
    /\ \E id \in RadarIds : ("R" \o id) \in Live
    /\ \E m \in Mmsis : ("A" \o m) \in Live

====
